---- MODULE Spec2Model ----
(***************************************************************************)
(* State-machine model of the playback orchestrator in src/plugin/play.py  *)
(* (MusicQueue, MusicPlayer and the command / stream-end handlers).        *)
(*                                                                         *)
(* Scheduling.  The handlers are asyncio coroutines.  A coroutine gives up *)
(* control only where it awaits an external collaborator (the chat         *)
(* transport, the call transport, the media service, asyncio.sleep).  The  *)
(* per-chat asyncio.Lock is never held across such an await, so acquiring  *)
(* it never suspends and every MusicQueue method runs atomically.  One     *)
(* action of the model is therefore one run of a coroutine from an         *)
(* external await to the next; awaits between which no shared state is     *)
(* read or written are merged, and the outcome of each external call is an *)
(* input drawn with \E.                                                    *)
(*                                                                         *)
(* A queue entry is the 7-tuple (songname, file_path, url, media_type,     *)
(* quality, requester, user_id); only file_path (index 1) and user_id      *)
(* (index 6) are ever read back by the orchestrator, so an entry is the    *)
(* record [file, user].                                                    *)
(*                                                                         *)
(* MusicQueue.add reads self.MAX_QUEUE_SIZE, which play.py never assigns;  *)
(* the model takes it to be bound to the MAX_QUEUE_SIZE imported from      *)
(* config (not part of src/), as play_command's own check uses it.         *)
(***************************************************************************)
EXTENDS Integers, Sequences, FiniteSets, Bags, TLC

\* ---------------------------------------------------------------- bounds
\* Handler invocations (commands and stream-end events) per behaviour.
MaxOps == 3

\* Inputs: chats, requesters' user ids, downloaded file paths.
Chats == {"c1", "c2"}
Users == {"u1", "u2"}
Files == {"f1", "f2"}
\* user_id of a message without a sender (m.from_user is None, line 293).
\* Requests are drawn from identified users.
NoUser == "nouser"

\* ------------------------------------------------------------- constants
\* config.MAX_QUEUE_SIZE (imported at play.py line 10).
MAX_QUEUE_SIZE == 2
\* cleanup_file: max_retries.
max_retries == 5

VARIABLES
    queues,                  \* MusicQueue.queues: chat -> sequence of entries
    locks,                   \* MusicQueue.locks: the chats that have a Lock
    file_usage,              \* MusicQueue.file_usage: file path -> count
    active_players,          \* MusicPlayer.active_players
    user_active_chats,       \* MusicPlayer.user_active_chats: user -> set of chats
    restrict_multiple_chats, \* module global, toggled by /togglemulti
    tasks,                   \* bag of suspended handler coroutines
    cleanups,                \* bag of cleanup_file tasks: [file, attempt]
    nops,                    \* handler invocations so far
    last,                    \* what the step just taken reported to the handler's
                             \* caller (NoReport when it ended no handler)
    pushed,                  \* history: entries accepted by add, per chat
    popped                   \* history: entries returned by pop, per chat

vars == <<queues, locks, file_usage, active_players, user_active_chats,
          restrict_multiple_chats, tasks, cleanups, nops, last, pushed, popped>>

\* --------------------------------------------------------------- helpers
Entry(f, u) == [file |-> f, user |-> u]

One(x) == SetToBag({x})

\* dict without key k
Del(d, k) == [x \in (DOMAIN d) \ {k} |-> d[x]]
\* dict with d[k] = v
Put(d, k, v) == [x \in (DOMAIN d) \cup {k} |-> IF x = k THEN v ELSE d[x]]

Report(op, c, u, out, pos, rep) ==
    [op |-> op, chat |-> c, user |-> u, out |-> out, pos |-> pos, report |-> rep]

NoReport == Report("none", "none", "none", "none", 0, {})

Task(kind, pc, c, u, wa, ret) ==
    [kind |-> kind, pc |-> pc, chat |-> c, user |-> u, wasActive |-> wa, ret |-> ret]

\* ------------------------------------------------------------ MusicQueue
\* MusicQueue.get_queue: the queue of chat c as a list, [] when unknown.
get_queue(q, c) == IF c \in DOMAIN q THEN q[c] ELSE <<>>

\* MusicQueue.get_next: the front entry, or "none".
HasNext(q, c) == c \in DOMAIN q /\ Len(q[c]) > 0

\* MusicQueue.add, lines 31-33: lazy creation of the queue and its lock.
add_created(q, c) == IF c \in DOMAIN q THEN q ELSE Put(q, c, <<>>)

\* Mutant of add_full: the capacity test lets one entry too many in.
add_full_off_by_one(q, c) == Len(add_created(q, c)[c]) > MAX_QUEUE_SIZE

\* MusicQueue.add, line 35: the capacity test under the lock.
add_full(q, c) == Len(add_created(q, c)[c]) >= MAX_QUEUE_SIZE

\* MusicQueue.add, lines 34-39: the position returned, -1 when full.
add_pos(q, c) == IF add_full(q, c) THEN -1 ELSE Len(add_created(q, c)[c]) + 1

\* MusicQueue.add, line 37: the queue store after the call.
add_queues(q, c, e) ==
    IF add_full(q, c) THEN add_created(q, c)
    ELSE [add_created(q, c) EXCEPT ![c] = Append(@, e)]

\* MusicQueue.add, line 38: file_usage after the call.
add_usage(fu, q, c, f) ==
    IF add_full(q, c) THEN fu
    ELSE Put(fu, f, (IF f \in DOMAIN fu THEN fu[f] ELSE 0) + 1)

\* MusicQueue.pop, lines 43-45: whether an entry is removed.
pop_some(q, c) == c \in DOMAIN q /\ Len(q[c]) > 0

\* Mutant of pop_entry: the entry is taken from the right end.
pop_entry_right(q, c) == q[c][Len(q[c])]

\* MusicQueue.pop, line 46: popleft.
pop_entry(q, c) == Head(q[c])
pop_queues(q, c) == [q EXCEPT ![c] = Tail(@)]

\* MusicQueue.pop, line 47: file_usage[song[1]] -= 1 raises KeyError when the
\* path is not tracked (after popleft has removed the entry).
pop_raises(fu, f) == f \notin DOMAIN fu
pop_usage(fu, f) == [fu EXCEPT ![f] = @ - 1]

\* MusicQueue.clear, lines 69-70: the loop over the entries; it stops at the
\* first entry whose path is not tracked (KeyError).
RECURSIVE clear_loop(_, _, _)
clear_loop(fu, s, i) ==
    IF i > Len(s) THEN [usage |-> fu, raised |-> FALSE]
    ELSE IF s[i].file \notin DOMAIN fu THEN [usage |-> fu, raised |-> TRUE]
    ELSE clear_loop([fu EXCEPT ![s[i].file] = @ - 1], s, i + 1)

\* MusicQueue.clear, lines 65-73.
clear_raises(fu, q, c) == c \in DOMAIN q /\ clear_loop(fu, q[c], 1).raised
clear_usage(fu, q, c) == IF c \in DOMAIN q THEN clear_loop(fu, q[c], 1).usage ELSE fu
clear_queues(fu, q, c) ==
    IF c \in DOMAIN q /\ ~clear_raises(fu, q, c) THEN Del(q, c) ELSE q
clear_locks(fu, q, lk, c) ==
    IF c \in DOMAIN q /\ ~clear_raises(fu, q, c) THEN lk \ {c} ELSE lk

\* ----------------------------------------------------------- MusicPlayer
\* play_command lines 389-392 (and 335-338, 345-348, 414-417): record the
\* requester in user_active_chats; skipped when user_id is None.
index_add(uac, u, c) ==
    IF u = NoUser THEN uac
    ELSE Put(uac, u, (IF u \in DOMAIN uac THEN uac[u] ELSE {}) \cup {c})

\* discard c from uac[u], deleting the key when the set becomes empty
\* (lines 155-157 and 190-192).
index_discard(uac, u, c) ==
    IF u \notin DOMAIN uac THEN uac
    ELSE IF uac[u] \ {c} = {} THEN Del(uac, u)
    ELSE [uac EXCEPT ![u] = @ \ {c}]

\* Mutant of index_prune: a user who has the chat in their set loses the
\* whole set.
index_prune_whole_set(uac, c) == [u \in {x \in DOMAIN uac : c \notin uac[x]} |-> uac[u]]

\* Mutant of index_prune: a key is kept when its set becomes empty.
index_prune_keep_empty(uac, c) == [u \in DOMAIN uac |-> uac[u] \ {c}]

\* end_call lines 153-157: remove chat c from every user's set.
index_prune(uac, c) ==
    LET keep == {u \in DOMAIN uac : c \notin uac[u] \/ uac[u] \ {c} # {}}
    IN  [u \in keep |-> uac[u] \ {c}]

\* Mutant of skip_index: the requester is dropped whatever remains queued.
skip_index_always(uac, q, c, u) == index_discard(uac, u, c)

\* skip_current lines 186-192: drop the popped entry's requester from the index
\* when no remaining entry of the chat is theirs.
skip_index(uac, q, c, u) ==
    IF u \in DOMAIN uac
       /\ ~(\E i \in 1..Len(get_queue(q, c)) : get_queue(q, c)[i].user = u)
    THEN index_discard(uac, u, c)
    ELSE uac

\* play_command lines 306-308: the restriction test.
admit_refused(u) ==
    /\ restrict_multiple_chats
    /\ u \in DOMAIN user_active_chats
    /\ user_active_chats[u] # {}

\* Mutant of admit_report: the rejection names every user's chats.
admit_report_everyone(u) ==
    UNION {user_active_chats[x] : x \in DOMAIN user_active_chats}

\* play_command line 309: the chats named in the rejection.
admit_report(u) == user_active_chats[u]

\* play_command lines 314-315: the capacity pre-check.
capacity_refused(c) == Len(get_queue(queues, c)) >= MAX_QUEUE_SIZE

\* ------------------------------------------------------------------ Init
Init ==
    /\ queues = <<>>
    /\ locks = {}
    /\ file_usage = <<>>
    /\ active_players = {}
    /\ user_active_chats = <<>>
    /\ restrict_multiple_chats \in BOOLEAN
    /\ tasks = EmptyBag
    /\ cleanups = EmptyBag
    /\ nops = 0
    /\ last = NoReport
    /\ pushed = [c \in Chats |-> <<>>]
    /\ popped = [c \in Chats |-> <<>>]

\* ------------------------------------------------------- handler returns
\* What a handler reports when skip_current / end_call hands back `ret`.
Returned(kind, c, ret) ==
    IF kind = "end" THEN Report("end", c, "none", "stopped", 0, {})
    ELSE Report("skip", c, "none", ret, 0, {})

\* An exception leaves the handler.
Raised(kind, c) == Report(kind, c, "none", "raised", 0, {})

\* end_call line 148: the call is a no-op when the chat has no session;
\* otherwise the coroutine suspends in call_client.leave_call.
\* `tb` is the task bag without the calling coroutine.
EnterEndCall(tb, kind, c, ret) ==
    IF c \in active_players
    THEN /\ tasks' = tb (+) One(Task(kind, "end_leave", c, "none", FALSE, ret))
         /\ last' = NoReport
    ELSE /\ tasks' = tb
         /\ last' = Returned(kind, c, ret)

\* ---------------------------------------------------------- play_command
\* play_command lines 288-317: the reply, the restriction check and the
\* capacity pre-check.  When admitted the coroutine suspends in the media
\* service (track / download).  (A request with neither audio nor query,
\* lines 358-359, returns here without reading or writing any state.)
PlayCommand(c, u) ==
    /\ nops < MaxOps
    /\ nops' = nops + 1
    /\ IF admit_refused(u)
       THEN /\ last' = Report("play", c, u, "active_elsewhere", 0, admit_report(u))
            /\ tasks' = tasks
       ELSE IF capacity_refused(c)
       THEN /\ last' = Report("play", c, u, "full", 0, {})
            /\ tasks' = tasks
       ELSE /\ last' = NoReport
            /\ tasks' = tasks (+) One(Task("play", "download", c, u, FALSE, "none"))
    /\ UNCHANGED <<queues, locks, file_usage, active_players,
                   user_active_chats, restrict_multiple_chats, cleanups,
                   pushed, popped>>

\* play_command lines 363-380 and 411-422 (321-326, 342-353 for a replied
\* audio): the media service answers.  On success the file is downloaded,
\* queue_manager.add runs, and either play_song is entered (pos == 1, suspends
\* in is_valid_chat) or the requester is recorded and the position reported.
PlayResolved(t, f, ok) ==
    /\ t \in BagToSet(tasks)
    /\ t.kind = "play" /\ t.pc = "download"
    /\ IF ~ok
       THEN /\ tasks' = tasks (-) One(t)
            /\ last' = Report("play", t.chat, t.user, "download_failed", 0, {})
            /\ UNCHANGED <<queues, locks, file_usage, user_active_chats, pushed>>
       ELSE LET c == t.chat
                pos == add_pos(queues, c)
            IN  /\ queues' = add_queues(queues, c, Entry(f, t.user))
                /\ locks' = locks \cup {c}
                /\ file_usage' = add_usage(file_usage, queues, c, f)
                /\ pushed' = IF pos = -1 THEN pushed
                             ELSE [pushed EXCEPT ![c] = Append(@, Entry(f, t.user))]
                /\ IF pos = 1
                   THEN /\ tasks' = (tasks (-) One(t))
                                    (+) One([t EXCEPT !.pc = "play_valid"])
                        /\ last' = NoReport
                        /\ user_active_chats' = user_active_chats
                   ELSE /\ tasks' = tasks (-) One(t)
                        /\ user_active_chats' = index_add(user_active_chats, t.user, c)
                        /\ last' = Report("play", c, t.user, "queued", pos, {})
    /\ UNCHANGED <<active_players, restrict_multiple_chats, cleanups, nops, popped>>

\* Mutant of is_valid_chat: every chat is taken to be resolvable.
is_valid_chat_lenient(res) == TRUE

\* is_valid_chat lines 113-122: True when bot.get_chat returns, False when it
\* raises ValueError "Peer id invalid"; any other exception is raised again.
is_valid_chat(res) == res = "ok"
is_valid_chat_raises(res) == res = "error"

\* play_song lines 126-130 (is_valid_chat lines 113-122): bot.get_chat
\* answers.  "ok": line 130 tests active_players and the coroutine suspends in
\* call_client.play.  "invalid": play_song returns False.  "error": another
\* exception leaves play_song; play_command catches it (line 423),
\* skip_current does not.
PlayValid(t, res) ==
    /\ t \in BagToSet(tasks)
    /\ t.pc = "play_valid"
    /\ LET c == t.chat
           tb == tasks (-) One(t)
       IN  IF is_valid_chat(res)
           THEN /\ tasks' = tb (+) One([t EXCEPT !.pc = "play_call",
                                                 !.wasActive = (c \in active_players)])
                /\ last' = NoReport
           ELSE IF t.kind = "play"
           THEN /\ tasks' = tb
                /\ last' = Report("play", c, t.user, "play_failed", 1, {})
           ELSE IF ~is_valid_chat_raises(res)
           THEN EnterEndCall(tb, "skip", c, "2")
           ELSE /\ tasks' = tb
                /\ last' = Raised("skip", c)
    /\ UNCHANGED <<queues, locks, file_usage, active_players,
                   user_active_chats, restrict_multiple_chats, cleanups, nops,
                   pushed, popped>>

\* play_song line 131-132: the chat joins active_players only on the branch
\* taken before the await (line 130).
play_active(act, c, wasActive) == IF wasActive THEN act ELSE act \cup {c}

\* play_song lines 131-144 and its callers (play_command 381-392 / 409-410,
\* skip_current 199-204): call_client.play answers.
PlayCall(t, ok) ==
    /\ t \in BagToSet(tasks)
    /\ t.pc = "play_call"
    /\ LET c == t.chat
           tb == tasks (-) One(t)
       IN  IF ok
           THEN /\ active_players' = play_active(active_players, c, t.wasActive)
                /\ tasks' = tb
                /\ IF t.kind = "play"
                   THEN /\ user_active_chats' = index_add(user_active_chats, t.user, c)
                        /\ last' = Report("play", c, t.user, "playing", 1, {})
                   ELSE /\ user_active_chats' = user_active_chats
                        /\ last' = Report("skip", c, "none", "next", 0, {})
           ELSE /\ active_players' = active_players
                /\ user_active_chats' = user_active_chats
                /\ IF t.kind = "play"
                   THEN /\ tasks' = tb
                        /\ last' = Report("play", c, t.user, "play_failed", 1, {})
                   ELSE EnterEndCall(tb, "skip", c, "2")
    /\ UNCHANGED <<queues, locks, file_usage, restrict_multiple_chats,
                   cleanups, nops, pushed, popped>>

\* ---------------------------------------------------------- skip_current
\* skip_current lines 171-199, entered from skip_command (line 433) or
\* stream_end_handler (line 245): the validity check, pop, the background
\* cleanup, the index update and the peek run without interruption once
\* bot.get_chat has answered.
skip_current_run(c, valid) ==
    /\ IF ~is_valid_chat(valid)
       THEN /\ last' = IF is_valid_chat_raises(valid) THEN Raised("skip", c)
                       ELSE Returned("skip", c, "None")
            /\ UNCHANGED <<queues, file_usage, user_active_chats, tasks, cleanups, popped>>
       ELSE IF ~pop_some(queues, c)
       THEN /\ EnterEndCall(tasks, "skip", c, "None")
            /\ UNCHANGED <<queues, file_usage, user_active_chats, cleanups, popped>>
       ELSE LET e == pop_entry(queues, c)
                q1 == pop_queues(queues, c)
            IN  /\ queues' = q1
                /\ IF pop_raises(file_usage, e.file)
                   THEN /\ last' = Raised("skip", c)
                        /\ UNCHANGED <<file_usage, user_active_chats, tasks, cleanups, popped>>
                   ELSE /\ file_usage' = pop_usage(file_usage, e.file)
                        /\ popped' = [popped EXCEPT ![c] = Append(@, e)]
                        /\ cleanups' = cleanups (+) One([file |-> e.file, attempt |-> 0])
                        /\ user_active_chats' = skip_index(user_active_chats, q1, c, e.user)
                        /\ IF HasNext(q1, c)
                           THEN /\ tasks' = tasks (+) One(Task("skip", "play_valid", c, "none",
                                                              FALSE, "none"))
                                /\ last' = NoReport
                           ELSE EnterEndCall(tasks, "skip", c, "0")
    /\ UNCHANGED <<locks, active_players, restrict_multiple_chats, pushed>>

\* One invocation of skip_current, counted against MaxOps.
skip_current(c, valid) ==
    /\ nops < MaxOps
    /\ nops' = nops + 1
    /\ skip_current_run(c, valid)

\* skip_command, lines 428-433.
SkipCommand(c, valid) == skip_current(c, valid)

\* stream_end_handler, lines 242-245: the call transport reports that the
\* stream of an active chat has ended.
StreamEnd(c, valid) == c \in active_players /\ skip_current(c, valid)

\* -------------------------------------------------------------- end_call
\* end_command lines 552-574: for an admin in a chat with a session the
\* handler enters end_call, which suspends in call_client.leave_call.
EndCommand(c) ==
    /\ nops < MaxOps
    /\ nops' = nops + 1
    /\ c \in active_players
    /\ EnterEndCall(tasks, "end", c, "none")
    /\ UNCHANGED <<queues, locks, file_usage, active_players,
                   user_active_chats, restrict_multiple_chats, cleanups,
                   pushed, popped>>

\* end_call lines 164-165 (the "Peer id invalid" handler): remove and clear.
\* A KeyError raised here (chat no longer in active_players, or an untracked
\* path in clear) is not caught and leaves the handler.
LocalCleanup(t) ==
    LET c == t.chat
        tb == tasks (-) One(t)
    IN  IF c \notin active_players
        THEN /\ tasks' = tb
             /\ last' = Raised(t.kind, c)
             /\ UNCHANGED <<queues, locks, file_usage, active_players>>
        ELSE /\ active_players' = active_players \ {c}
             /\ file_usage' = clear_usage(file_usage, queues, c)
             /\ queues' = clear_queues(file_usage, queues, c)
             /\ locks' = clear_locks(file_usage, queues, locks, c)
             /\ tasks' = tb
             /\ last' = IF clear_raises(file_usage, queues, c) THEN Raised(t.kind, c)
                        ELSE Returned(t.kind, c, t.ret)

\* end_call lines 150-158 and 161-169: call_client.leave_call answers.
\* "ok": remove from active_players (a KeyError is caught at line 168), prune
\* the index, clear the queue, then suspend in the notification (lines
\* 159-160).  "peer_invalid": lines 162-165.  "error": only logged.
EndLeave(t, res) ==
    /\ t \in BagToSet(tasks)
    /\ t.pc = "end_leave"
    /\ LET c == t.chat
           tb == tasks (-) One(t)
       IN  IF res = "ok"
           THEN IF c \notin active_players
                THEN /\ tasks' = tb
                     /\ last' = Returned(t.kind, c, t.ret)
                     /\ UNCHANGED <<queues, locks, file_usage, active_players,
                                    user_active_chats>>
                ELSE /\ active_players' = active_players \ {c}
                     /\ user_active_chats' = index_prune(user_active_chats, c)
                     /\ file_usage' = clear_usage(file_usage, queues, c)
                     /\ queues' = clear_queues(file_usage, queues, c)
                     /\ locks' = clear_locks(file_usage, queues, locks, c)
                     /\ IF clear_raises(file_usage, queues, c)
                        THEN /\ tasks' = tb
                             /\ last' = Returned(t.kind, c, t.ret)
                        ELSE /\ tasks' = tb (+) One([t EXCEPT !.pc = "end_notify"])
                             /\ last' = NoReport
           ELSE IF res = "peer_invalid"
           THEN /\ LocalCleanup(t)
                /\ UNCHANGED user_active_chats
           ELSE /\ tasks' = tb
                /\ last' = Returned(t.kind, c, t.ret)
                /\ UNCHANGED <<queues, locks, file_usage, active_players,
                               user_active_chats>>
    /\ UNCHANGED <<restrict_multiple_chats, cleanups, nops, pushed, popped>>

\* end_call lines 159-160: is_valid_chat and bot.send_message answer.  Every
\* failure is only logged, except a ValueError "Peer id invalid" raised by
\* send_message, which runs lines 162-165.
EndNotify(t, res) ==
    /\ t \in BagToSet(tasks)
    /\ t.pc = "end_notify"
    /\ IF res = "peer_invalid"
       THEN LocalCleanup(t)
       ELSE /\ tasks' = tasks (-) One(t)
            /\ last' = Returned(t.kind, t.chat, t.ret)
            /\ UNCHANGED <<queues, locks, file_usage, active_players>>
    /\ UNCHANGED <<user_active_chats, restrict_multiple_chats, cleanups,
                   nops, pushed, popped>>

\* ---------------------------------------------------------- cleanup_file
\* Mutant of cleanup_eligible: a path without a tracked count is retried too.
cleanup_eligible_any(fu, f) == TRUE

\* cleanup_file line 77, evaluated when the task created by
\* background_cleanup (line 102) first runs.
cleanup_eligible(fu, f) == f \in DOMAIN fu /\ fu[f] <= 0

\* cleanup_file line 84: del file_usage[file_path]; a KeyError is caught at
\* line 94.
cleanup_usage(fu, f) == IF f \in DOMAIN fu THEN Del(fu, f) ELSE fu

\* cleanup_file lines 75-98: one run of the task up to its next sleep (or its
\* end).  fs is what the file system answers: "missing" (os.path.exists is
\* false), "removed" (os.remove succeeds), "in_use" (PermissionError with
\* WinError 32: sleep and retry), "error" (any other exception).
CleanupStep(k, fs) ==
    /\ k \in BagToSet(cleanups)
    /\ LET f == k.file
           kb == cleanups (-) One(k)
       IN  IF k.attempt = 0 /\ ~cleanup_eligible(file_usage, f)
           THEN /\ cleanups' = kb
                /\ file_usage' = file_usage
           ELSE IF k.attempt >= max_retries
           THEN /\ cleanups' = kb
                /\ file_usage' = file_usage
           ELSE IF fs = "removed"
           THEN /\ cleanups' = kb
                /\ file_usage' = cleanup_usage(file_usage, f)
           ELSE IF fs = "in_use"
           THEN /\ cleanups' = kb (+) One([k EXCEPT !.attempt = @ + 1])
                /\ file_usage' = file_usage
           ELSE /\ cleanups' = kb
                /\ file_usage' = file_usage
    /\ last' = NoReport
    /\ UNCHANGED <<queues, locks, active_players, user_active_chats,
                   restrict_multiple_chats, tasks, nops, pushed, popped>>

\* ------------------------------------------------- toggle_multi_command
\* lines 578-584.
ToggleMulti ==
    /\ nops < MaxOps
    /\ nops' = nops + 1
    /\ restrict_multiple_chats' = ~restrict_multiple_chats
    /\ last' = Report("togglemulti", "none", "none",
                      IF restrict_multiple_chats' THEN "enabled" ELSE "disabled", 0, {})
    /\ UNCHANGED <<queues, locks, file_usage, active_players,
                   user_active_chats, tasks, cleanups, pushed, popped>>

\* ---------------------------------------------------------------- inputs
\* The names a state mentions.  Chats, users and files are interchangeable, so
\* while a state mentions no chat (user, file) at all, the next request is
\* taken to name the first one: every other choice leads to the same
\* behaviours with the names swapped.
RangeOf(s) == {s[i] : i \in DOMAIN s}

UsedEntries == UNION {RangeOf(pushed[c]) : c \in Chats}

UsedChats ==
    DOMAIN queues \cup locks \cup active_players
    \cup UNION {user_active_chats[u] : u \in DOMAIN user_active_chats}
    \cup {t.chat : t \in BagToSet(tasks)}
    \cup {c \in Chats : pushed[c] # <<>>}
    \cup ({last.chat} \cap Chats)

UsedUsers ==
    DOMAIN user_active_chats
    \cup ({t.user : t \in BagToSet(tasks)} \cap Users)
    \cup {e.user : e \in UsedEntries}
    \cup ({last.user} \cap Users)

UsedFiles ==
    DOMAIN file_usage
    \cup {e.file : e \in UsedEntries}
    \cup {k.file : k \in BagToSet(cleanups)}

ChatInputs == IF UsedChats = {} THEN {"c1"} ELSE Chats
UserInputs == IF UsedUsers = {} THEN {"u1"} ELSE Users
FileInputs == IF UsedFiles = {} THEN {"f1"} ELSE Files

\* Answers of the external collaborators.
ChatAnswers == {"ok", "invalid", "error"}
LeaveAnswers == {"ok", "peer_invalid", "error"}
NotifyAnswers == {"ok", "peer_invalid"}
RemoveAnswers == {"missing", "removed", "in_use", "error"}

\* ------------------------------------------------------------------ Next
\* A command or a stream-end event arrives and its handler runs up to its
\* first await that matters.
Arrive ==
    \/ \E c \in ChatInputs, u \in UserInputs : PlayCommand(c, u)
    \/ \E c \in ChatInputs, valid \in ChatAnswers : SkipCommand(c, valid)
    \/ \E c \in ChatInputs, valid \in ChatAnswers : StreamEnd(c, valid)
    \/ \E c \in ChatInputs : EndCommand(c)
    \/ ToggleMulti

\* A suspended coroutine (a handler or a cleanup task) is resumed.
Resume ==
    \/ \E t \in BagToSet(tasks), f \in FileInputs, ok \in BOOLEAN : PlayResolved(t, f, ok)
    \/ \E t \in BagToSet(tasks), res \in ChatAnswers : PlayValid(t, res)
    \/ \E t \in BagToSet(tasks), ok \in BOOLEAN : PlayCall(t, ok)
    \/ \E t \in BagToSet(tasks), res \in LeaveAnswers : EndLeave(t, res)
    \/ \E t \in BagToSet(tasks), res \in NotifyAnswers : EndNotify(t, res)
    \/ \E k \in BagToSet(cleanups), fs \in RemoveAnswers : CleanupStep(k, fs)

Next == Arrive \/ Resume

Spec == Init /\ [][Next]_vars

\* ------------------------------------------------- sequential executions
\* The same handlers, with a new handler started only when no other handler
\* coroutine is suspended (cleanup_file tasks still run in the background):
\* the behaviours in which commands and stream-end events do not overlap.
SeqNext == (tasks = EmptyBag /\ Arrive) \/ Resume

SeqSpec == Init /\ [][SeqNext]_vars

\* ------------------------------------------------ restriction kept enabled
\* The program started with restrict_multiple_chats enabled and
\* /togglemulti never issued; the handlers may overlap.
RestrictedInit == Init /\ restrict_multiple_chats

RestrictedArrive ==
    \/ \E c \in ChatInputs, u \in UserInputs : PlayCommand(c, u)
    \/ \E c \in ChatInputs, valid \in ChatAnswers : SkipCommand(c, valid)
    \/ \E c \in ChatInputs, valid \in ChatAnswers : StreamEnd(c, valid)
    \/ \E c \in ChatInputs : EndCommand(c)

RestrictedNext == RestrictedArrive \/ Resume

RestrictedSpec == RestrictedInit /\ [][RestrictedNext]_vars

\* ------------------------------------------- transports that never fail
\* Play requests per behaviour when the transports never fail.
MaxPlays == 2

\* No user's Activity Index set contains chat c.
Unindexed(c) == \A u \in DOMAIN user_active_chats : c \notin user_active_chats[u]

\* Play requests arrive (at most MaxPlays of them, so that they stop), every
\* external call succeeds, and the call transport reports the end of the
\* stream of every chat in which call_client.play has succeeded: a chat that
\* has a session (play_song line 134) or whose requester has been indexed
\* (play_command, after play_song returned True).  It reports one end per
\* stream: none while the handler of the chat's previous stream end is still
\* running (that handler starts the next stream or leaves the call).
StreamEnded(c) ==
    /\ c \in active_players \/ ~Unindexed(c)
    /\ \A t \in BagToSet(tasks) : ~(t.kind = "skip" /\ t.chat = c)
    /\ skip_current_run(c, "ok")
    /\ UNCHANGED nops

LiveEnqueue ==
    /\ nops < MaxPlays
    /\ \E c \in ChatInputs, u \in UserInputs : PlayCommand(c, u)
LiveResolved == \E t \in BagToSet(tasks), f \in FileInputs : PlayResolved(t, f, TRUE)
LiveValid == \E t \in BagToSet(tasks) : PlayValid(t, "ok")
LiveCall == \E t \in BagToSet(tasks) : PlayCall(t, TRUE)
LiveLeave == \E t \in BagToSet(tasks) : EndLeave(t, "ok")
LiveNotify == \E t \in BagToSet(tasks) : EndNotify(t, "ok")
LiveStream == \E c \in Chats : StreamEnded(c)
LiveCleanup == \E k \in BagToSet(cleanups), fs \in RemoveAnswers : CleanupStep(k, fs)

LiveNext ==
    \/ LiveEnqueue
    \/ LiveResolved
    \/ LiveValid
    \/ LiveCall
    \/ LiveLeave
    \/ LiveNotify
    \/ LiveStream
    \/ LiveCleanup

\* The event loop resumes every coroutine whose await has completed, and
\* every stream that plays comes to its end.
LiveSpec ==
    /\ Init
    /\ [][LiveNext]_vars
    /\ WF_vars(LiveResolved) /\ WF_vars(LiveValid) /\ WF_vars(LiveCall)
    /\ WF_vars(LiveLeave) /\ WF_vars(LiveNotify) /\ WF_vars(LiveStream)
    /\ WF_vars(LiveCleanup)

\* ------------------------------------------------------- pause / resume
\* Mutant of pause_calls: the transport is called whatever the chat's state.
pause_calls_always(act, c) == TRUE

\* MusicPlayer.pause line 208 (MusicPlayer.resume line 219): the transport is
\* called only for a chat in active_players.
pause_calls(act, c) == c \in act
resume_calls(act, c) == c \in act

\* What pause / resume hand back: the value returned and the collaborators
\* called on the way.
Control(op, c, called, ok) ==
    Report(op, c, "none", IF called /\ ok THEN "True" ELSE "False", 0,
           IF called THEN {"call_client"} ELSE {})

\* MusicPlayer.pause, lines 206-215; ok is whether call_client.pause returns
\* (True) or raises (False).  Nothing is written, so the await is not a
\* separate step.
pause(c, ok) ==
    /\ nops < MaxOps
    /\ nops' = nops + 1
    /\ last' = Control("pause", c, pause_calls(active_players, c), ok)
    /\ UNCHANGED <<queues, locks, file_usage, active_players, user_active_chats,
                   restrict_multiple_chats, tasks, cleanups, pushed, popped>>

\* MusicPlayer.resume, lines 217-226.
resume(c, ok) ==
    /\ nops < MaxOps
    /\ nops' = nops + 1
    /\ last' = Control("resume", c, resume_calls(active_players, c), ok)
    /\ UNCHANGED <<queues, locks, file_usage, active_players, user_active_chats,
                   restrict_multiple_chats, tasks, cleanups, pushed, popped>>

\* The handlers one at a time, with MusicPlayer.pause and MusicPlayer.resume
\* called on any chat between them.
PlayerNext ==
    \/ tasks = EmptyBag /\ Arrive
    \/ Resume
    \/ \E c \in ChatInputs, ok \in BOOLEAN : pause(c, ok)
    \/ \E c \in ChatInputs, ok \in BOOLEAN : resume(c, ok)

PlayerSpec == Init /\ [][PlayerNext]_vars

\* ------------------------------------------------ MusicQueue on its own
\* The methods of MusicQueue called directly, in any order and with any
\* arguments, as its callers (play_command, skip_current, end_call) may.
MaxCalls == 5

\* MusicQueue.add, lines 29-39.
QueueAdd(c, f, u) ==
    /\ nops < MaxCalls
    /\ nops' = nops + 1
    /\ queues' = add_queues(queues, c, Entry(f, u))
    /\ locks' = locks \cup {c}
    /\ file_usage' = add_usage(file_usage, queues, c, f)
    /\ pushed' = IF add_pos(queues, c) = -1 THEN pushed
                 ELSE [pushed EXCEPT ![c] = Append(@, Entry(f, u))]
    /\ last' = Report("add", c, u, "pos", add_pos(queues, c), {})
    /\ UNCHANGED <<active_players, user_active_chats, restrict_multiple_chats,
                   tasks, cleanups, popped>>

\* MusicQueue.pop, lines 41-49.
QueuePop(c) ==
    /\ nops < MaxCalls
    /\ nops' = nops + 1
    /\ IF ~pop_some(queues, c)
       THEN /\ last' = Report("pop", c, "none", "None", 0, {})
            /\ UNCHANGED <<queues, file_usage, popped>>
       ELSE /\ queues' = pop_queues(queues, c)
            /\ IF pop_raises(file_usage, pop_entry(queues, c).file)
               THEN /\ last' = Raised("pop", c)
                    /\ UNCHANGED <<file_usage, popped>>
               ELSE /\ file_usage' = pop_usage(file_usage, pop_entry(queues, c).file)
                    /\ popped' = [popped EXCEPT ![c] = Append(@, pop_entry(queues, c))]
                    /\ last' = Report("pop", c, pop_entry(queues, c).user, "song", 0, {})
    /\ UNCHANGED <<locks, active_players, user_active_chats,
                   restrict_multiple_chats, tasks, cleanups, pushed>>

\* MusicQueue.clear, lines 65-73.
QueueClear(c) ==
    /\ nops < MaxCalls
    /\ nops' = nops + 1
    /\ file_usage' = clear_usage(file_usage, queues, c)
    /\ queues' = clear_queues(file_usage, queues, c)
    /\ locks' = clear_locks(file_usage, queues, locks, c)
    /\ last' = IF clear_raises(file_usage, queues, c) THEN Raised("clear", c)
               ELSE Report("clear", c, "none", "done", 0, {})
    /\ UNCHANGED <<active_players, user_active_chats, restrict_multiple_chats,
                   tasks, cleanups, pushed, popped>>

\* MusicQueue.background_cleanup, lines 100-102: the cleanup_file task is
\* created and runs later.
QueueBackgroundCleanup(f) ==
    /\ nops < MaxCalls
    /\ nops' = nops + 1
    /\ cleanups' = cleanups (+) One([file |-> f, attempt |-> 0])
    /\ last' = NoReport
    /\ UNCHANGED <<queues, locks, file_usage, active_players, user_active_chats,
                   restrict_multiple_chats, tasks, pushed, popped>>

QueueNext ==
    \/ \E c \in ChatInputs, f \in FileInputs, u \in UserInputs : QueueAdd(c, f, u)
    \/ \E c \in ChatInputs : QueuePop(c)
    \/ \E c \in ChatInputs : QueueClear(c)
    \/ \E f \in FileInputs : QueueBackgroundCleanup(f)
    \/ \E k \in BagToSet(cleanups), fs \in RemoveAnswers : CleanupStep(k, fs)

QueueSpec == Init /\ [][QueueNext]_vars

\* The event loop runs every task that is ready and asyncio.sleep returns:
\* a pending cleanup_file task is eventually resumed.
CleanupRuns == \E k \in BagToSet(cleanups), fs \in RemoveAnswers : CleanupStep(k, fs)

QueueFairSpec == QueueSpec /\ WF_vars(CleanupRuns)

\* ================================================================ claims
Quiescent == tasks = EmptyBag

\* Number of entries of sequence s whose file path is f.
RECURSIVE CountFile(_, _)
CountFile(s, f) ==
    IF s = <<>> THEN 0
    ELSE (IF Head(s).file = f THEN 1 ELSE 0) + CountFile(Tail(s), f)

RECURSIVE SumOver(_, _, _)
SumOver(q, cs, f) ==
    IF cs = {} THEN 0
    ELSE LET c == CHOOSE x \in cs : TRUE
         IN  CountFile(q[c], f) + SumOver(q, cs \ {c}, f)

\* Queue entries, across all chats, whose file path is f.
Referenced(f) == SumOver(queues, DOMAIN queues, f)

\* The tracked count of f, 0 when untracked.
Tracked(f) == IF f \in DOMAIN file_usage THEN file_usage[f] ELSE 0

\* Chat c is Idle: no session, no queue and no lock in the store.
Idle(c) == c \notin active_players /\ c \notin DOMAIN queues /\ c \notin locks


\* C1: every queue holds at most MAX_QUEUE_SIZE entries, and an add on a chat
\* whose queue already holds MAX_QUEUE_SIZE entries returns -1 and leaves the
\* queue store unchanged, whatever enqueues are in flight.
C1_QueueBounded ==
    /\ [](\A c \in DOMAIN queues : Len(queues[c]) <= MAX_QUEUE_SIZE)
    /\ [][\A t \in BagToSet(tasks), f \in Files :
            (PlayResolved(t, f, TRUE)
             /\ Len(get_queue(queues, t.chat)) >= MAX_QUEUE_SIZE)
            => (last'.pos = -1 /\ queues' = queues)]_vars

\* C1 witness: an add has found the queue full (two requests admitted at
\* length MAX_QUEUE_SIZE - 1; the second add returns -1).
C1_Witness ==
    /\ last.op = "play" /\ last.pos = -1
    /\ Len(get_queue(queues, last.chat)) = MAX_QUEUE_SIZE

\* C2: for every file path the tracked count (0 when untracked) equals the
\* number of queue entries whose path it is, and is never negative.
C2_RefCountMatches ==
    \A f \in Files : Tracked(f) = Referenced(f) /\ Tracked(f) >= 0

\* C4: once every request has completed, a user is a key of the Activity
\* Index if and only if some queue holds an entry requested by that user.
C4_IndexConsistent ==
    Quiescent =>
        \A u \in Users :
            (u \in DOMAIN user_active_chats)
            <=> (\E c \in DOMAIN queues, i \in 1..MAX_QUEUE_SIZE :
                    i <= Len(queues[c]) /\ queues[c][i].user = u)

\* C5: with the restriction enabled, a play request of a user whose index set
\* is non-empty is rejected, reports exactly that user's chats, and inserts
\* nothing.
C5_RestrictionRejects ==
    [][\A c \in Chats, u \in Users :
         (PlayCommand(c, u) /\ restrict_multiple_chats
          /\ u \in DOMAIN user_active_chats /\ user_active_chats[u] # {})
         => /\ last'.out = "active_elsewhere"
            /\ last'.report = user_active_chats[u]
            /\ tasks' = tasks
            /\ UNCHANGED <<queues, locks, file_usage, active_players,
                           user_active_chats>>]_vars

\* C5 witness: a request was rejected naming a chat other than the one asked.
C5_Witness ==
    /\ last.out = "active_elsewhere"
    /\ last.report # {} /\ last.chat \notin last.report

\* C6: no step drops the reference-count record of (deletes) a file whose
\* count is above zero.
C6_NoReclaimWhileReferenced ==
    [][\A f \in DOMAIN file_usage :
         file_usage[f] > 0 => f \in DOMAIN file_usage']_vars

\* C7: a play request refused for an admission reason (the active-elsewhere
\* check, the capacity pre-check, or add returning -1) is reported as that
\* refusal and changes neither the queues, the reference counts, the active
\* sessions nor the Activity Index.
C7_RefusalIsClean ==
    [][(last'.op = "play"
        /\ (last'.out \in {"active_elsewhere", "full"} \/ last'.pos = -1))
       => /\ last'.out \in {"active_elsewhere", "full"}
          /\ UNCHANGED <<queues, file_usage, active_players,
                         user_active_chats>>]_vars

\* A step that ends the skip_current coroutine t (its handler leaves the bag).
SkipEnds(t) ==
    /\ t \in BagToSet(tasks) /\ t.kind = "skip"
    /\ tasks' = tasks (-) One(t)

\* C8: skip_current on a resolvable chat whose queue holds exactly one entry
\* answers 0 ("queue empty") and leaves the chat Idle.  The call ends either
\* at once (the chat has no session) or when end_call, entered with the
\* answer 0 pending, ends.
C8_EmptyQueueEndsIdle ==
    [][/\ \A c \in Chats :
            (SkipCommand(c, "ok") /\ Len(get_queue(queues, c)) = 1 /\ tasks' = tasks)
            => (last'.out = "0" /\ Idle(c)')
       /\ \A t \in BagToSet(tasks) :
            (SkipEnds(t) /\ t.ret = "0")
            => (last'.out = "0" /\ Idle(t.chat)')]_vars

\* C9: skip_current on a chat with at least two entries whose playback start
\* of the new front entry fails answers 2 (not 0), makes no further playback
\* attempt, and leaves the chat Idle.  The start fails in play_song (the chat
\* is not resolvable, or call_client.play raises); the call ends at once or
\* when end_call, entered with the answer 2 pending, ends.
C9_PlaybackErrorEndsIdle ==
    /\ [](\A t \in BagToSet(tasks) :
            t.ret = "2" => t.pc \in {"end_leave", "end_notify"})
    /\ [][\A t \in BagToSet(tasks) :
            (SkipEnds(t)
             /\ \/ PlayValid(t, "invalid")
                \/ PlayCall(t, FALSE)
                \/ t.ret = "2")
            => (last'.out = "2" /\ Idle(t.chat)')]_vars

\* C10: when end_call, entered by the end command on a chat with a session,
\* has completed, whatever call_client.leave_call answered, the chat has no
\* session, no queue, and no user's index set contains it.
C10_TerminateTearsDown ==
    (last.op = "end" /\ last.out = "stopped")
    => (Idle(last.chat) /\ Unindexed(last.chat))

\* s is a prefix of t.
IsPrefix(s, t) == Len(s) <= Len(t) /\ \A i \in 1..Len(s) : s[i] = t[i]

\* s can be obtained from t by leaving entries out (the order is kept).
RECURSIVE IsSubseq(_, _)
IsSubseq(s, t) ==
    IF s = <<>> THEN TRUE
    ELSE IF t = <<>> THEN FALSE
    ELSE IF Head(s) = Head(t) THEN IsSubseq(Tail(s), Tail(t))
    ELSE IsSubseq(s, Tail(t))

\* C3 as claimed: the entries returned by the pops of a chat are a prefix of
\* the entries accepted by the adds on that chat.
C3_PoppedIsPrefix == \A c \in Chats : IsPrefix(popped[c], pushed[c])

\* C3 as amended: the entries returned by the pops of a chat, followed by
\* those still queued, are in the order in which add accepted them (the
\* accepted sequence with the entries dropped by clear left out).
C3_FifoOrder ==
    \A c \in Chats : IsSubseq(popped[c] \o get_queue(queues, c), pushed[c])

\* C3 witness: a chat has returned two different entries, with adds and pops
\* of the other chat in between or around them.
C3_Witness ==
    \E c \in Chats, d \in Chats :
        /\ c # d /\ Len(popped[c]) = 2 /\ popped[c][1] # popped[c][2]
        /\ pushed[d] # <<>>

\* C11: an enqueue request accepted on a chat that has no session puts its
\* entry at position 1 and enters the playback start at once; and when the
\* playback start of a play request succeeds, the chat is in active_players
\* and the requester's index set contains the chat.
C11_ImmediatePlayback ==
    [][/\ \A t \in BagToSet(tasks), f \in Files :
            (PlayResolved(t, f, TRUE)
             /\ t.chat \notin active_players /\ add_pos(queues, t.chat) # -1)
            => /\ add_pos(queues, t.chat) = 1
               /\ \E s \in BagToSet(tasks') :
                     s.kind = "play" /\ s.chat = t.chat /\ s.pc = "play_valid"
       /\ \A t \in BagToSet(tasks) :
            (PlayCall(t, TRUE) /\ t.kind = "play")
            => /\ t.chat \in active_players'
               /\ t.user \in DOMAIN user_active_chats'
               /\ t.chat \in user_active_chats'[t.user]]_vars

\* C12: with the restriction enabled throughout, every user's index set holds
\* at most one chat, whatever play requests of that user overlap.
C12_OneChatPerUser ==
    \A u \in DOMAIN user_active_chats : Cardinality(user_active_chats[u]) <= 1

\* No handler coroutine is suspended on chat c.
ChatQuiet(c) == \A t \in BagToSet(tasks) : t.chat # c

\* C13: whenever no operation is in progress on a chat, the chat is in
\* active_players only if its queue is non-empty.
C13_SessionHasEntry ==
    \A c \in Chats :
        (ChatQuiet(c) /\ c \in active_players) => Len(get_queue(queues, c)) > 0

\* C14: every step that brings the tracked count of a file from above zero
\* to zero or below leaves a cleanup_file task for that file dispatched.
C14_ReleaseDispatchesReclaim ==
    [][\A f \in DOMAIN file_usage :
         (file_usage[f] > 0 /\ f \in DOMAIN file_usage' /\ file_usage'[f] <= 0)
         => \E k \in BagToSet(cleanups') : k.file = f]_vars

\* C15: pause and resume on a chat outside active_players return False
\* without calling the call transport; on a chat in active_players they call
\* it and return whether it succeeded; in every case the queues, the
\* reference counts, active_players and the Activity Index are unchanged.
C15_PauseResumeFrame ==
    [][\A c \in Chats, ok \in BOOLEAN :
         (pause(c, ok) \/ resume(c, ok))
         => /\ UNCHANGED <<queues, file_usage, active_players, user_active_chats>>
            /\ c \notin active_players
                  => (last'.out = "False" /\ last'.report = {})
            /\ c \in active_players
                  => /\ last'.report = {"call_client"}
                     /\ last'.out = IF ok THEN "True" ELSE "False"]_vars

\* C15 witness: pause was called on a chat that has an entry queued but no
\* session, beside a chat that is playing.
C15_Witness ==
    /\ last.op = "pause" /\ last.out = "False" /\ last.report = {}
    /\ Len(get_queue(queues, last.chat)) > 0
    /\ active_players # {}

\* C16: while restrict_multiple_chats is disabled, no step of a play request,
\* of skip_current or of end_call adds anything to or removes anything from
\* user_active_chats.
C16_DisabledLeavesIndexAlone ==
    [][~restrict_multiple_chats => user_active_chats' = user_active_chats]_vars

\* C17: clear raises no error, whether the chat has a queue or not, and a
\* clear that comes right after a clear of the same chat, or on a chat that
\* has no queue, changes neither the queue store, the locks nor any count.
C17_ClearIdempotent ==
    [][\A c \in Chats :
         QueueClear(c)
         => /\ last'.out = "done"
            /\ (c \notin DOMAIN queues \/ (last.op = "clear" /\ last.chat = c))
                  => UNCHANGED <<queues, locks, file_usage>>]_vars

\* The state skip_current and play_song must leave alone when they abort.
Stores == <<queues, file_usage, active_players, user_active_chats>>

\* C18: on a chat the chat transport cannot resolve ("Peer id invalid"),
\* skip_current returns None and play_song returns False (play_command
\* reports the failed start, skip_current goes on to answer 2), nothing is
\* raised, call_client.play is not reached, and the queues, the reference
\* counts, active_players and the Activity Index are unchanged.
C18_UnresolvableAbortsQuietly ==
    [][/\ \A c \in Chats :
            (SkipCommand(c, "invalid") \/ StreamEnd(c, "invalid"))
            => /\ last'.op = "skip" /\ last'.out = "None"
               /\ tasks' = tasks
               /\ UNCHANGED Stores
       /\ \A t \in BagToSet(tasks) :
            PlayValid(t, "invalid")
            => /\ UNCHANGED Stores
               /\ last'.out # "raised"
               /\ \A s \in BagToSet(tasks') \ BagToSet(tasks) : s.pc # "play_call"
               /\ t.kind = "play" => last'.out = "play_failed"
               /\ t.kind = "skip"
                     => \/ last'.out = "2"
                        \/ \E s \in BagToSet(tasks') : s.chat = t.chat /\ s.ret = "2"]_vars

\* C18 witness: skip_current has returned None on a playing chat whose queue
\* holds an entry.
C18_Witness ==
    /\ last.op = "skip" /\ last.out = "None"
    /\ last.chat \in active_players
    /\ Len(get_queue(queues, last.chat)) > 0
    /\ Quiescent

\* C19: every key of user_active_chats maps to a non-empty set of chats.
C19_NoEmptyIndexSet ==
    \A u \in DOMAIN user_active_chats : user_active_chats[u] # {}

\* C19 witness: end_call has torn down a session, nothing was ever popped,
\* and the index has no key left.  The session was started by a play request,
\* which recorded its requester in the same step, so end_call has discarded
\* the last chat of that user's set and deleted the key.
C19_Witness ==
    /\ last.op = "end" /\ last.out = "stopped"
    /\ last.chat \notin active_players
    /\ DOMAIN user_active_chats = {}
    /\ \A c \in Chats : popped[c] = <<>>

\* C20: a cleanup_file task makes at most max_retries delete attempts.  It
\* ends on a successful delete, on a missing file, on an error other than
\* "file in use", or when the retries are used up; only a "file in use"
\* failure leads to one more attempt.  For a path without a tracked count
\* it ends at once, whatever a delete attempt would have answered.  Once no
\* more tasks are dispatched, every task has ended.
C20_ReclaimTerminates ==
    /\ <>[](cleanups = EmptyBag)
    /\ [](\A k \in BagToSet(cleanups) : k.attempt \in 0..max_retries)
    /\ [][\A k \in BagToSet(cleanups), fs \in RemoveAnswers :
            CleanupStep(k, fs)
            => LET ended == cleanups' = cleanups (-) One(k)
               IN  /\ (k.attempt = 0 /\ k.file \notin DOMAIN file_usage)
                         => (ended /\ file_usage' = file_usage)
                   /\ fs \in {"removed", "missing", "error"} => ended
                   /\ k.attempt = max_retries
                         => (ended /\ file_usage' = file_usage)
                   /\ ~ended
                         => cleanups' = (cleanups (-) One(k))
                                        (+) One([k EXCEPT !.attempt = @ + 1])]_vars

\* C20 witness: a task has failed max_retries times and waits for its last
\* wake-up, while a task for a path without a tracked count is pending.
C20_Witness ==
    /\ \E k \in BagToSet(cleanups) : k.attempt = max_retries
    /\ \E k \in BagToSet(cleanups) : k.attempt = 0 /\ k.file \notin DOMAIN file_usage

\* Chat c is in user u's Activity Index set.
Indexed(uac, u, c) == u \in DOMAIN uac /\ c \in uac[u]

\* C21: when skip_current has popped an entry of chat c, the chat is removed
\* from the set of the entry's requester if and only if no entry left in the
\* queue of c is theirs; when one is left, the requester's membership is as
\* it was before.
C21_SkipIndexRemoval ==
    [][\A c \in Chats :
         (skip_current(c, "ok") /\ popped'[c] # popped[c])
         => LET u == Head(queues[c]).user
                remains == \E i \in 1..Len(queues'[c]) : queues'[c][i].user = u
            IN  /\ remains => (Indexed(user_active_chats', u, c)
                                <=> Indexed(user_active_chats, u, c))
                /\ ~remains => ~Indexed(user_active_chats', u, c)]_vars

\* C21 witness: skip_current has just popped an entry of a chat (it is
\* suspended in the playback start of the next one), an entry of the same
\* requester remains, and the requester's set still contains the chat.
C21_Witness ==
    \E t \in BagToSet(tasks) :
        /\ t.kind = "skip" /\ t.pc = "play_valid"
        /\ popped[t.chat] # <<>>
        /\ \E i \in 1..Len(get_queue(queues, t.chat)) :
               queues[t.chat][i].user = popped[t.chat][Len(popped[t.chat])].user
        /\ Indexed(user_active_chats, popped[t.chat][Len(popped[t.chat])].user, t.chat)

\* C22: with transports that never fail, every stream coming to its end and
\* play requests that stop arriving, every chat eventually is, and stays,
\* without a session, without a queue in the store, and outside every
\* user's index set.
C22_EventuallyIdle ==
    <>[](\A c \in Chats :
            /\ c \notin active_players
            /\ c \notin DOMAIN queues
            /\ Unindexed(c))

\* A step of an operation on chat c: a handler entered for c, pause or resume
\* called for c, or a coroutine working on c resumed.
OnChat(c) ==
    \/ \E u \in Users : PlayCommand(c, u)
    \/ \E valid \in ChatAnswers : SkipCommand(c, valid) \/ StreamEnd(c, valid)
    \/ EndCommand(c)
    \/ \E ok \in BOOLEAN : pause(c, ok) \/ resume(c, ok)
    \/ \E t \in BagToSet(tasks) :
          /\ t.chat = c
          /\ \/ \E f \in Files, ok \in BOOLEAN : PlayResolved(t, f, ok)
             \/ \E res \in ChatAnswers : PlayValid(t, res)
             \/ \E ok \in BOOLEAN : PlayCall(t, ok)
             \/ \E res \in LeaveAnswers : EndLeave(t, res)
             \/ \E res \in NotifyAnswers : EndNotify(t, res)

\* The step leaves chat d as it was: its queue, its session, and its
\* membership in every user's index set.
ChatUnchanged(d) ==
    /\ (d \in DOMAIN queues') <=> (d \in DOMAIN queues)
    /\ get_queue(queues', d) = get_queue(queues, d)
    /\ (d \in active_players') <=> (d \in active_players)
    /\ \A u \in Users :
          Indexed(user_active_chats', u, d) <=> Indexed(user_active_chats, u, d)

\* C23: every step of a play request, of skip_current, of pause, of resume
\* and of end_call on a chat leaves the queue and the session of every other
\* chat unchanged, and changes no user's index membership of another chat.
C23_OtherChatsUntouched ==
    [][\A c \in Chats :
         OnChat(c) => \A d \in Chats \ {c} : ChatUnchanged(d)]_vars

\* C23 witness: end_call has torn down a chat whose first entry was
\* requested by a user who also has another chat in their set, and that
\* other chat still has its session, its queue and its place in the set,
\* while the chat torn down has left the set.
C23_Witness ==
    /\ last.op = "end" /\ last.out = "stopped"
    /\ last.chat \notin active_players
    /\ \E d \in Chats \ {last.chat}, u \in Users :
          /\ pushed[last.chat] # <<>> /\ pushed[last.chat][1].user = u
          /\ d \in active_players
          /\ Len(get_queue(queues, d)) > 0
          /\ Indexed(user_active_chats, u, d)
          /\ ~Indexed(user_active_chats, u, last.chat)

====
